---- MODULE Spec2Model ----
(***************************************************************************)
(* The trading loop of okx_bot.py (TradingSystem) with the three managers  *)
(* of trader/managers.py (DataManager, SignalManager, PositionManager) and *)
(* the exchange gateway of gateways/okx_gateway.py.                        *)
(*                                                                         *)
(* Numbers.  Python floats are modelled as exact fixed-point values:       *)
(*   target_pos       in units of 10^-6 of the underlying  (PosScale)      *)
(*   target_notional  in units of 10^-3 of the quote currency              *)
(*   target_qty, qty  in units of 10^-3 contract           (QtyScale)      *)
(*   order size       in units of 10^-1 contract           (round(.., 1))  *)
(*   signals          in units of 1/SigDen                                 *)
(* round() is Python's round-half-to-even.                                 *)
(*                                                                         *)
(* Specifications.  Spec is the program from TradingSystem.__init__ on.    *)
(* SizingSpec and GenSpec call one method on its own (_get_target_pos,     *)
(* generate_signals) on arguments drawn from sample sets; fx holds the     *)
(* arguments and the result.                                               *)
(***************************************************************************)
EXTENDS Integers, Sequences, FiniteSets, TLC

\* ------------------------------------------------------------------ bounds
MaxCycles == 2
MaxRetries == 1
MaxRisk == 6
MaxFails == 2

\* ----------------------------------------------------------- configuration
\* bot_config.toml as read by the managers' constructors
BarIntervals == {1, 3}
StrategyIntervals == <<1, 3>>
max_risk == 1000
tol == 1
bar_interval == 1
ContractSizeMicro == 1000
combine_kind == "sum"
\* strategy_factory.strategy_classes
strategy_classes == {"MAOverlap", "RSICrossover"}
\* config["strategies"], one entry per configured parameter set: the class
\* name, what validate_params answers for the parameters, and their resample
ValidStrategyConfigs ==
    [k \in DOMAIN StrategyIntervals |->
        [name |-> IF k = 1 THEN "MAOverlap" ELSE "RSICrossover",
         params_valid |-> TRUE,
         resample |-> StrategyIntervals[k]]]
StrategyConfigSamples ==
    {ValidStrategyConfigs}
        \cup { [ValidStrategyConfigs EXCEPT ![k].name = "Unknown"] :
                  k \in DOMAIN ValidStrategyConfigs }
        \cup { [ValidStrategyConfigs EXCEPT ![k].params_valid = FALSE] :
                  k \in DOMAIN ValidStrategyConfigs }

\* ------------------------------------------------------------ fixed point
PosScale == 1000000
NotionalScale == 1000
QtyScale == 1000
SzScale == 10
SigDen == 2
LeverCap == 100
MinQtyDiff == 1

\* ---------------------------------------------------------- input samples
\* what the exchange can answer
AtrSamples == {100, 300}
SigSamples == {-1, 0, 1}
MarkSamples == {50000}
MinuteSamples == {0, 2, 3}

SecondsPerMinute == 60
\* a series is its interval in minutes, the last value of its ATR, the
\* signal the strategies read from it, and the age of its last candle in
\* seconds when is_data_complete looks at it
NoContract == [interval |-> 0, atr |-> 0, sig |-> 0, age |-> 0]
\* a complete series
Contracts(i) ==
    [interval : {i}, atr : {100}, sig : SigSamples, age : {0}]
        \cup (IF i = bar_interval
              THEN [interval : {i}, atr : AtrSamples \ {100}, sig : {1},
                    age : {0}]
              ELSE {})
\* a series whose two oldest candles are one candle apart more than they
\* should be: Contract.from_dataframe takes its interval from them
GappedContracts(i) ==
    [interval : {2 * i}, atr : {100}, sig : {0}, age : {0}]
IncompleteContracts(i) ==
    [interval : {i}, atr : {100}, sig : {0}, age : {SecondsPerMinute * i}]

\* PositionData.from_dict gives None for a record it cannot parse
UnparsedPos == [parsed |-> FALSE, lever |-> 0, qty |-> 0, margin |-> 0]
ParsedPos ==
    {      [parsed |-> TRUE, lever |-> 100, qty |-> 9999000, margin |-> 2000],
      [parsed |-> TRUE, lever |-> 83, qty |-> 9999500, margin |-> 1000] }
PosLists == {<<>>} \cup { <<p>> : p \in ParsedPos \cup {UnparsedPos} }

Abs(x) == IF x < 0 THEN -x ELSE x
Sign(x) == IF x < 0 THEN -1 ELSE IF x > 0 THEN 1 ELSE 0

\* Python round(): n / d rounded to the nearest integer, ties to even
RoundNat(n, d) ==
    LET q == n \div d
        r == n % d
    IN  IF 2 * r < d THEN q
        ELSE IF 2 * r > d THEN q + 1
        ELSE IF q % 2 = 0 THEN q ELSE q + 1
Round(n, d) == Sign(n) * RoundNat(Abs(n), d)

\* Python int(): truncation toward zero
Trunc(n, d) == Sign(n) * (Abs(n) \div d)

\* ------------------------------------------------------------- DataManager
\* DataManager.current_posdata: the first record, None for an empty list
NonePos == UnparsedPos
current_posdata(posdata) ==
    IF Len(posdata) = 0 THEN NonePos ELSE posdata[1]

\* should_fetch_bars without the mapping of minute 0 to 60
should_fetch_barsZeroMinute(cs, m) ==
    { i \in DOMAIN cs : cs[i] = NoContract \/ m % i = 0 }
\* DataManager.should_fetch_bars at wall-clock minute m
should_fetch_bars(cs, m) ==
    LET now_minute == IF m = 0 THEN 60 ELSE m
    IN  { i \in DOMAIN cs : cs[i] = NoContract \/ now_minute % i = 0 }

\* DataManager.is_data_complete: now - last_candle_time < max_delay, with
\* max_delay = timedelta(minutes=contract.interval); age is
\* now - last_candle_time in seconds
is_data_completeWithinTwo(contract) ==
    contract.age < 2 * SecondsPerMinute * contract.interval
is_data_complete(contract) ==
    contract.age < SecondsPerMinute * contract.interval

\* sync tasks that refresh the position snapshot once an hour only
periodic_sync_tasksHourlySnapshot(cs, m) ==
    { <<"fetch", i>> : i \in should_fetch_bars(cs, m) }
        \cup { <<"mark_price", 0>> }
        \cup (IF m = 0 THEN { <<"posdata", 0>> } ELSE {})
\* DataManager.periodic_sync_tasks: one fetch per due interval, the position
\* snapshot and the mark price
periodic_sync_tasks(cs, m) ==
    { <<"fetch", i>> : i \in should_fetch_bars(cs, m) }
        \cup { <<"posdata", 0>>, <<"mark_price", 0>> }

\* a gather that does not wait
GatherAny(tasks) == TRUE
\* asyncio.gather(*tasks) returns when no task is left
GatherDone(tasks) == tasks = {}

\* ----------------------------------------------------------- SignalManager
\* strategy_factory.create_strategy: FALSE stands for its ValueError
create_strategy(strategy_name) == strategy_name \in strategy_classes

\* a set_params that accepts whatever it is given
set_paramsUnchecked(entry) == TRUE
\* TradeSignalGenerator.set_params: FALSE stands for its ValueError
set_params(entry) == entry.params_valid

\* SignalManager._load_sg
load_sg(entry) == create_strategy(entry.name) /\ set_params(entry)

\* SignalManager.load_strategies: the gather passes on the first error
load_strategies(configs) == \A k \in DOMAIN configs : load_sg(configs[k])

\* SignalManager._gen_signal for the strategy bound to interval i: the last
\* value of the strategy's signal on the cached series
gen_signal(cs, i) == cs[i].sig

\* SignalManager._gen_signal raises: data.interval of None, or the bare
\* raise when the strategy's resample is not the interval of the series
gen_signal_error(cs, i) == cs[i] = NoContract \/ cs[i].interval # i

RECURSIVE SumSeq(_)
SumSeq(s) == IF s = <<>> THEN 0 ELSE Head(s) + SumSeq(Tail(s))

\* the strategies whose interval is a key of contracts, in strategy order
RECURSIVE GatherSignals(_, _)
GatherSignals(cs, sgs) ==
    IF sgs = <<>> THEN <<>>
    ELSE IF Head(sgs) \in DOMAIN cs
         THEN <<gen_signal(cs, Head(sgs))>> \o GatherSignals(cs, Tail(sgs))
         ELSE GatherSignals(cs, Tail(sgs))

\* a combination that takes the mean whatever the kind
combine_signals_quotientMeanOnly(signals, kind) ==
    IF signals # <<>> THEN <<SumSeq(signals), Len(signals)>> ELSE <<0, 1>>
\* SignalManager.combine_signals: the division it evaluates, as
\* <<dividend, divisor>>; the literal 0 of the else branches is <<0, 1>>
combine_signals_quotient(signals, kind) ==
    IF kind = "sum"
    THEN IF signals # <<>>
         THEN <<SumSeq(signals), Len(signals)>> ELSE <<0, 1>>
    ELSE IF Abs(SumSeq(signals)) > 0
         THEN <<SumSeq(signals), Abs(SumSeq(signals))>> ELSE <<0, 1>>
\* SignalManager.combine_signals, result in units of 1/SigDen
combine_signals(signals, kind) ==
    LET q == combine_signals_quotient(signals, kind)
    IN  Trunc(q[1] * SigDen, q[2])

\* a comparison that lets a move of one signal unit pass as no change
signal_has_changedTolerant(new_signal, stored) == Abs(new_signal - stored) > 1
\* SignalManager.signal_has_changed
signal_has_changed(new_signal, stored) == new_signal # stored

\* SignalManager.generate_signals on the cache cs with the strategies sgs
\* and the stored signal: an error of one _gen_signal leaves through the
\* gather, before anything is combined or stored
generate_signals(cs, sgs, kind, stored) ==
    LET evaluated == SelectSeq(sgs, LAMBDA i : i \in DOMAIN cs)
        raised == \E k \in DOMAIN evaluated :
                      gen_signal_error(cs, evaluated[k])
        new_signal == combine_signals(GatherSignals(cs, sgs), kind)
    IN  IF raised
        THEN [raised |-> TRUE, changed |-> FALSE, final_signal |-> stored]
        ELSE [raised |-> FALSE,
              changed |-> signal_has_changed(new_signal, stored),
              final_signal |-> new_signal]

\* --------------------------------------------------------- PositionManager
NoOrderId == 0
EmptyOrdId == -1

PosManInit ==
    [target_pos |-> 0, target_notional |-> 0, target_qty |-> 0,
     target_lever |-> 0, last_orderid |-> NoOrderId]

\* the same value rounded to 5 decimals
target_pos_ofFiveDecimals(risk, atr, signal_strength) ==
    LET A == risk * Abs(signal_strength)
        D == atr * SigDen
        S == PosScale \div 10
    IN  Sign(signal_strength)
            * 10 * ((A \div D) * S + RoundNat((A % D) * S, D))
\* round((max_risk / atr) * signal_strength, 6) for max_risk = risk
target_pos_of(risk, atr, signal_strength) ==
    LET A == risk * Abs(signal_strength)
        D == atr * SigDen
    IN  Sign(signal_strength)
            * ((A \div D) * PosScale + RoundNat((A % D) * PosScale, D))

\* PositionManager._get_target_pos
get_target_pos(cs, signal_strength) ==
    target_pos_of(max_risk, cs[bar_interval].atr * tol, signal_strength)

\* float(mark_price) * target_pos
get_target_notional_size(mark, pos) ==
    LET k == PosScale \div NotionalScale
    IN  Sign(pos) * (mark * (Abs(pos) \div k) + (mark * (Abs(pos) % k)) \div k)

\* target_pos / contract_size
get_target_contracts(pos) ==
    Sign(pos) * ((Abs(pos) \div ContractSizeMicro) * QtyScale
                  + ((Abs(pos) % ContractSizeMicro) * QtyScale)
                        \div ContractSizeMicro)

\* _get_target_leverage without its cap
get_target_leverageUncapped(notional) ==
    Trunc(notional, max_risk * NotionalScale)

\* int(target_notional / max_risk), capped at 100
get_target_leverage(notional) ==
    LET lever == Trunc(notional, max_risk * NotionalScale)
    IN  IF lever > LeverCap THEN LeverCap ELSE lever

\* PositionManager._calc_target
calc_target(pm, cs, signal_strength, mark) ==
    LET pos == get_target_pos(cs, signal_strength)
        notional == get_target_notional_size(mark, pos)
    IN  [pm EXCEPT !.target_pos = pos,
                   !.target_notional = notional,
                   !.target_lever = get_target_leverage(notional),
                   !.target_qty = get_target_contracts(pos)]

\* _calc_diff with the operands of lever_diff exchanged, and with nothing to
\* do when there is no position
calc_diffReversed(pm, cur) ==
    IF cur = NonePos
    THEN <<pm.target_lever, pm.target_qty>>
    ELSE <<cur.lever - pm.target_lever, pm.target_qty - cur.qty>>
calc_diffNoneIsZero(pm, cur) ==
    IF cur = NonePos
    THEN <<0, 0>>
    ELSE <<pm.target_lever - cur.lever, pm.target_qty - cur.qty>>

\* a _calc_diff that orders nothing while the position is unknown
calc_diffNoneSkipsOrder(pm, cur) ==
    IF cur = NonePos
    THEN <<pm.target_lever, 0>>
    ELSE <<pm.target_lever - cur.lever, pm.target_qty - cur.qty>>
\* PositionManager._calc_diff: <<lever_diff, qty_diff>>
calc_diff(pm, cur) ==
    IF cur = NonePos
    THEN <<pm.target_lever, pm.target_qty>>
    ELSE <<pm.target_lever - cur.lever, pm.target_qty - cur.qty>>

\* ----------------------------------------------------------------- gateway
\* What OKXGateway.set_leverage and place_order give back: a result packet
\* {code, data}, or an exception (the gateway logs and re-raises)
Raised == [code |-> "raise", data |-> <<>>]
NotCalled == [code |-> "none", data |-> <<>>]
SetLeverageResults ==
    { [code |-> "0", data |-> <<[ordId |-> EmptyOrdId, sMsg |-> ""]>>],
      [code |-> "1", data |-> <<[ordId |-> EmptyOrdId, sMsg |-> "rejected"]>>],
      [code |-> "1", data |-> <<>>],
      Raised }
PlaceOrderResults(id) ==
    { [code |-> "0", data |-> <<[ordId |-> id, sMsg |-> ""]>>],
      [code |-> "1", data |-> <<[ordId |-> EmptyOrdId, sMsg |-> "rejected"]>>],
      [code |-> "1", data |-> <<>>],
      Raised }

\* process_result with its failure branch never taken
process_resultSilent(result, fail_msg) == <<>>

\* PositionManager.process_result: the error lines it logs
process_result(result, fail_msg) ==
    IF result.code # "0"
    THEN [k \in 1..Len(result.data) |->
            [fail |-> fail_msg, msg |-> result.data[k].sMsg]]
    ELSE <<>>

\* the tests of execute with the leverage test dropped and with >= for >
NeedsLeverageAlways(lever_diff) == TRUE
NeedsOrderAtLeast(qty_diff) == Abs(qty_diff) >= MinQtyDiff * QtyScale

\* the tests of PositionManager.execute
NeedsLeverage(lever_diff) == lever_diff # 0
NeedsOrder(qty_diff) == Abs(qty_diff) > MinQtyDiff * QtyScale

\* side and sz of the order: abs(round(qty_diff, 1)), in tenths of a contract
OrderSide(qty_diff) == IF qty_diff > 0 THEN "buy" ELSE "sell"
OrderSize(qty_diff) == Abs(Round(qty_diff, QtyScale \div SzScale))

NoCall == [op |-> "none", lever |-> 0, side |-> "", sz |-> 0, ordId |-> 0]
SetLeverageCall(lever) == [NoCall EXCEPT !.op = "set_leverage", !.lever = lever]
PlaceOrderCall(side, sz) ==
    [NoCall EXCEPT !.op = "place_order", !.side = side, !.sz = sz]
GetOrderCall(id) == [NoCall EXCEPT !.op = "get_order", !.ordId = id]
ConfirmPositionsCall == [NoCall EXCEPT !.op = "get_positions"]
AdjustMarginCall == [NoCall EXCEPT !.op = "adjust_margin"]

\* an execute that gives up when set_leverage did not succeed
LeverageBlocksOnFailure(lev) == lev.code # "0"
\* what of set_leverage keeps execute from going on to the order: only an
\* exception; a returned result is handed to process_result
LeverageBlocks(lev) == lev = Raised

\* PositionManager.execute, run to its end or to the first exception.
\* lev and ord are the gateway's answers to the calls it makes.
\* Gives the manager's new state, the calls made, the error lines logged
\* and whether an exception left execute.
execute(pm, cs, signal_strength, mark, cur, lev, ord) ==
    LET t == calc_target(pm, cs, signal_strength, mark)
        d == calc_diff(t, cur)
        lever_diff == d[1]
        qty_diff == d[2]
        levCalled == NeedsLeverage(lever_diff)
        levRaised == levCalled /\ LeverageBlocks(lev)
        ordCalled == ~levRaised /\ NeedsOrder(qty_diff)
        ordRaised == ordCalled /\ (ord = Raised \/ (ord # Raised /\ ord.data = <<>>))
        ordStored == ordCalled /\ ~ordRaised
    IN  [pm |-> IF ordStored
                THEN [t EXCEPT !.last_orderid = ord.data[1].ordId] ELSE t,
         lever_diff |-> lever_diff,
         qty_diff |-> qty_diff,
         calls |->
            (IF levCalled THEN <<SetLeverageCall(t.target_lever)>> ELSE <<>>)
            \o (IF ordCalled
                THEN <<PlaceOrderCall(OrderSide(qty_diff), OrderSize(qty_diff))>>
                ELSE <<>>),
         lev |-> IF levCalled THEN lev ELSE NotCalled,
         ord |-> IF ordCalled THEN ord ELSE NotCalled,
         log |->
            (IF levCalled /\ ~levRaised
             THEN process_result(lev, "Failed to set leverage") ELSE <<>>)
            \o (IF ordCalled /\ ord # Raised
                THEN process_result(ord, "Failed to place order") ELSE <<>>),
         raised |-> levRaised \/ ordRaised]

\* ------------------------------------------------------------------- state
VARIABLES
    pc,             \* where TradingSystem.run / job stands
    cycle,          \* number of calls of job so far
    retries,        \* retried exchange reads in the current cycle
    pending,        \* tasks of the running asyncio.gather not yet finished
    contracts,      \* DataManager.contracts
    posdata,        \* DataManager._current_posdata (read only after an update)
    mark_price,     \* DataManager.mark_price
    final_signal,   \* SignalManager.final_signal, in units of 1/SigDen
    signal_changed, \* job's local signal_changed
    pos_man,        \* PositionManager's target_* and last_orderid
    exe,            \* the call of execute made in the current cycle
    calls,          \* trading and confirmation calls of the current cycle
    strategy_configs, \* config["strategies"] of bot_config.toml
    snap_cycle,     \* the cycle in which _current_posdata was last written
    fx              \* arguments and result of a function called on its own

vars == <<pc, cycle, retries, pending, contracts, posdata, mark_price,
          final_signal, signal_changed, pos_man, exe, calls,
          strategy_configs, snap_cycle, fx>>

\* every variable but fx
rest == <<pc, cycle, retries, pending, contracts, posdata, mark_price,
          final_signal, signal_changed, pos_man, exe, calls,
          strategy_configs, snap_cycle>>

NoFx == [fn |-> "none"]

IdleExe ==
    [ran |-> FALSE, pre |-> PosManInit, lever_diff |-> 0, qty_diff |-> 0,
     lev |-> NotCalled, ord |-> NotCalled, log |-> <<>>, raised |-> FALSE]

PushResults == {"ok", "raise"}

Init ==
    /\ pc = "init"
    /\ cycle = 0
    /\ retries = 0
    /\ pending = {}
    /\ contracts = [i \in BarIntervals |-> NoContract]
    /\ posdata = <<>>
    /\ mark_price = 0
    /\ final_signal = 0
    /\ signal_changed = FALSE
    /\ pos_man = PosManInit
    /\ exe = IdleExe
    /\ calls = <<>>
    /\ strategy_configs \in StrategyConfigSamples
    /\ snap_cycle = 0
    /\ fx = NoFx

\* TradingSystem.__init__: SignalManager loads the strategies; an error
\* leaves the program before start() is called
Construct ==
    /\ pc = "init"
    /\ pc' = IF load_strategies(strategy_configs) THEN "start" ELSE "crashed"
    /\ UNCHANGED <<cycle, retries, pending, contracts, posdata, mark_price,
                   final_signal, signal_changed, pos_man, exe, calls,
                   strategy_configs, snap_cycle, fx>>

\* TradingSystem.run up to its first job: the start-up notification
RunStart ==
    /\ pc = "start"
    /\ \E push \in PushResults :
          pc' = IF push = "ok" THEN "ready" ELSE "except"
    /\ UNCHANGED <<cycle, retries, pending, contracts, posdata, mark_price,
                   final_signal, signal_changed, pos_man, exe, calls,
                   strategy_configs, snap_cycle, fx>>

\* a run that starts jobs without awaiting the one in progress
CanStartJobOverlapped(p) == p \in {"ready", "sleep", "sync", "confirm"}
\* run awaits each job before it sleeps and calls the next
CanStartJob(p) == p \in {"ready", "sleep"}

\* job, first part: periodic_sync_tasks at wall-clock minute m, then gather
JobStart ==
    /\ CanStartJob(pc)
    /\ cycle < MaxCycles
    /\ \E m \in MinuteSamples :
          pending' = periodic_sync_tasks(contracts, m)
    /\ pc' = "sync"
    /\ cycle' = cycle + 1
    /\ retries' = 0
    /\ exe' = IdleExe
    /\ calls' = <<>>
    /\ signal_changed' = FALSE
    /\ UNCHANGED <<contracts, posdata, mark_price, final_signal,
                   pos_man,
                   strategy_configs, snap_cycle, fx>>

\* fetch_and_process_data(i): the gateway gave a complete series
FetchOk(i) ==
    /\ pc = "sync"
    /\ <<"fetch", i>> \in pending
    /\ \E c \in Contracts(i) \cup GappedContracts(i) :
          /\ is_data_complete(c)
          /\ contracts' = [contracts EXCEPT ![i] = c]
    /\ pending' = pending \ {<<"fetch", i>>}
    /\ UNCHANGED <<pc, cycle, retries, posdata, mark_price, final_signal,
                   signal_changed, pos_man, exe, calls,
                   strategy_configs, snap_cycle, fx>>

\* fetch_and_process_data(i): the series is stored, found incomplete, and
\* the fetch is retried
FetchIncomplete(i) ==
    /\ pc = "sync"
    /\ <<"fetch", i>> \in pending
    /\ retries < MaxRetries
    /\ \E c \in IncompleteContracts(i) :
          /\ ~is_data_complete(c)
          /\ contracts' = [contracts EXCEPT ![i] = c]
    /\ retries' = retries + 1
    /\ UNCHANGED <<pc, cycle, pending, posdata, mark_price, final_signal,
                   signal_changed, pos_man, exe, calls,
                   strategy_configs, snap_cycle, fx>>

\* an exchange read (candles, positions or mark price) failed and is retried
ReadRetry ==
    /\ pc = "sync"
    /\ pending # {}
    /\ retries < MaxRetries
    /\ retries' = retries + 1
    /\ UNCHANGED <<pc, cycle, pending, contracts, posdata, mark_price,
                   final_signal, signal_changed, pos_man, exe, calls,
                   strategy_configs, snap_cycle, fx>>

\* DataManager.update_current_posdata
UpdateCurrentPosdata ==
    /\ pc = "sync"
    /\ <<"posdata", 0>> \in pending
    /\ posdata' \in PosLists
    /\ snap_cycle' = cycle
    /\ pending' = pending \ {<<"posdata", 0>>}
    /\ UNCHANGED <<pc, cycle, retries, contracts, mark_price, final_signal,
                   signal_changed, pos_man, exe, calls,
                   strategy_configs, fx>>

\* DataManager.update_mark_price
UpdateMarkPrice ==
    /\ pc = "sync"
    /\ <<"mark_price", 0>> \in pending
    /\ mark_price' \in MarkSamples
    /\ pending' = pending \ {<<"mark_price", 0>>}
    /\ UNCHANGED <<pc, cycle, retries, contracts, posdata, final_signal,
                   signal_changed, pos_man, exe, calls,
                   strategy_configs, snap_cycle, fx>>

\* a job that reconciles in every cycle
ShouldAdjustAlways(changed) == TRUE
\* job's test after generate_signals
ShouldAdjust(changed) == changed

\* job's call of SignalManager.generate_signals, once the gather of the
\* sync tasks is over; an error goes to run's except clause
GenerateSignals ==
    /\ pc = "sync"
    /\ GatherDone(pending)
    /\ LET r == generate_signals(contracts, StrategyIntervals, combine_kind,
                                 final_signal)
       IN  /\ final_signal' = r.final_signal
           /\ signal_changed' = r.changed
           /\ pc' = IF r.raised THEN "except"
                    ELSE IF ShouldAdjust(r.changed) THEN "adjust"
                    ELSE "jobend"
    /\ UNCHANGED <<cycle, retries, pending, contracts, posdata, mark_price,
                   pos_man, exe, calls,
                   strategy_configs, snap_cycle, fx>>

\* TradingSystem.adjust_pos: the notification, then PositionManager.execute;
\* after it job starts the gather of confirm_order and confirm_pos
AdjustPos ==
    /\ pc = "adjust"
    /\ \E push \in PushResults :
          IF push = "raise"
          THEN /\ pc' = "except"
               /\ UNCHANGED <<pos_man, exe, calls, pending>>
          ELSE \E lev \in SetLeverageResults, ord \in PlaceOrderResults(cycle) :
                LET r == execute(pos_man, contracts, final_signal, mark_price,
                                 current_posdata(posdata), lev, ord)
                IN  /\ pos_man' = r.pm
                    /\ exe' = [ran |-> TRUE, pre |-> pos_man,
                               lever_diff |-> r.lever_diff,
                               qty_diff |-> r.qty_diff,
                               lev |-> r.lev, ord |-> r.ord, log |-> r.log,
                               raised |-> r.raised]
                    /\ calls' = calls \o r.calls
                    /\ pc' = IF r.raised THEN "except" ELSE "confirm"
                    /\ pending' = IF r.raised THEN {}
                                  ELSE {<<"confirm_order", 0>>,
                                        <<"confirm_pos", 0>>}
    /\ UNCHANGED <<cycle, retries, contracts, posdata, mark_price,
                   final_signal, signal_changed,
                   strategy_configs, snap_cycle, fx>>

\* what gateway.get_order and gateway.adjust_margin can answer
GetOrderResults == {"empty", "order"}
AdjustMarginResults == {"ok", "failed", "raise"}

\* a confirm_order that clears the stored signal when the order is not
\* found, to have the next cycle reconcile again
ConfirmOrderResetsSignal ==
    /\ pc = "confirm"
    /\ <<"confirm_order", 0>> \in pending
    /\ calls' = Append(calls, GetOrderCall(pos_man.last_orderid))
    /\ \E orderdata \in GetOrderResults, push \in PushResults :
          /\ IF orderdata = "order" /\ push = "raise"
             THEN pc' = "except" /\ pending' = {}
             ELSE pc' = pc /\ pending' = pending \ {<<"confirm_order", 0>>}
          /\ final_signal' = IF orderdata = "empty" THEN 0 ELSE final_signal
    /\ UNCHANGED <<cycle, retries, contracts, posdata, mark_price,
                   signal_changed, pos_man, exe,
                   strategy_configs, snap_cycle, fx>>

\* TradingSystem.confirm_order: get_order with last_orderid, and a
\* notification when an order comes back
ConfirmOrder ==
    /\ pc = "confirm"
    /\ <<"confirm_order", 0>> \in pending
    /\ calls' = Append(calls, GetOrderCall(pos_man.last_orderid))
    /\ \E orderdata \in GetOrderResults, push \in PushResults :
          IF orderdata = "order" /\ push = "raise"
          THEN pc' = "except" /\ pending' = {}
          ELSE pc' = pc /\ pending' = pending \ {<<"confirm_order", 0>>}
    /\ UNCHANGED <<cycle, retries, contracts, posdata, mark_price,
                   final_signal, signal_changed, pos_man, exe,
                   strategy_configs, snap_cycle, fx>>

\* PositionManager.adjust_margin is reached with margin > max_risk * 1.5
NeedsMarginCut(p) == 2 * p.margin > 3 * max_risk

\* TradingSystem.confirm_pos: get_positions, a notification and adjust_margin
\* when a position comes back
ConfirmPos ==
    /\ pc = "confirm"
    /\ <<"confirm_pos", 0>> \in pending
    /\ \E ps \in PosLists, push \in PushResults, adj \in AdjustMarginResults :
          LET p == current_posdata(ps)
              raised == /\ ps # <<>>
                        /\ \/ p = NonePos
                           \/ push = "raise"
                           \/ NeedsMarginCut(p) /\ adj = "raise"
              adjusted == /\ ps # <<>>
                          /\ p # NonePos
                          /\ push = "ok"
                          /\ NeedsMarginCut(p)
          IN  /\ calls' = calls \o <<ConfirmPositionsCall>>
                            \o (IF adjusted THEN <<AdjustMarginCall>> ELSE <<>>)
              /\ IF raised
                 THEN pc' = "except" /\ pending' = {}
                 ELSE pc' = pc /\ pending' = pending \ {<<"confirm_pos", 0>>}
    /\ UNCHANGED <<cycle, retries, contracts, posdata, mark_price,
                   final_signal, signal_changed, pos_man, exe,
                   strategy_configs, snap_cycle, fx>>

\* job's end: the gather of the confirmations is over (or was not started),
\* time.sleep(1), back in run
JobEnd ==
    /\ \/ pc = "jobend"
       \/ pc = "confirm" /\ GatherDone(pending)
    /\ pc' = "sleep"
    /\ UNCHANGED <<cycle, retries, pending, contracts, posdata, mark_price,
                   final_signal, signal_changed, pos_man, exe, calls,
                   strategy_configs, snap_cycle, fx>>

\* run's except clause: log, notify, leave the loop
MainLoopError ==
    /\ pc = "except"
    /\ pc' = "stopped"
    /\ UNCHANGED <<cycle, retries, pending, contracts, posdata, mark_price,
                   final_signal, signal_changed, pos_man, exe, calls,
                   strategy_configs, snap_cycle, fx>>

Next ==
    \/ Construct
    \/ RunStart
    \/ JobStart
    \/ \E i \in BarIntervals : FetchOk(i)
    \/ \E i \in BarIntervals : FetchIncomplete(i)
    \/ ReadRetry
    \/ UpdateCurrentPosdata
    \/ UpdateMarkPrice
    \/ GenerateSignals
    \/ AdjustPos
    \/ ConfirmOrder
    \/ ConfirmPos
    \/ JobEnd
    \/ MainLoopError

Spec == Init /\ [][Next]_vars

\* --------------------------------------- functions called on their own
\* the managers as they are after construction, no run started
RestInit ==
    /\ pc = "fx"
    /\ cycle = 0
    /\ retries = 0
    /\ pending = {}
    /\ contracts = [i \in BarIntervals |-> NoContract]
    /\ posdata = <<>>
    /\ mark_price = 0
    /\ final_signal = 0
    /\ signal_changed = FALSE
    /\ pos_man = PosManInit
    /\ exe = IdleExe
    /\ calls = <<>>
    /\ strategy_configs = ValidStrategyConfigs
    /\ snap_cycle = 0

\* PositionManager._get_target_pos for a max_risk, an ATR (tol applied) and
\* a signal strength, then again with max_risk doubled
SizingRisks == 1..MaxRisk
SizingAtrs == {1, 3, 7, 64, 100, 300}
SizingSignals == {-2, -1, 0, 1, 2}

SizingInit ==
    /\ RestInit
    /\ fx \in [fn : {"get_target_pos"}, max_risk : SizingRisks,
                atr : SizingAtrs, signal_strength : SizingSignals,
                out : {<<>>}]

SizingCall ==
    /\ fx.fn = "get_target_pos"
    /\ fx.out = <<>>
    /\ fx' = [fx EXCEPT !.out =
                 <<target_pos_of(fx.max_risk, fx.atr, fx.signal_strength)>>]
    /\ UNCHANGED rest

SizingCallDoubled ==
    /\ fx.fn = "get_target_pos"
    /\ Len(fx.out) = 1
    /\ fx' = [fx EXCEPT !.out = Append(fx.out,
                 target_pos_of(2 * fx.max_risk, fx.atr, fx.signal_strength))]
    /\ UNCHANGED rest

SizingNext == SizingCall \/ SizingCallDoubled

SizingSpec == SizingInit /\ [][SizingNext]_vars

\* SignalManager.generate_signals on a cache as DataManager can hold it (a
\* None entry from construction until the interval's first fetch returns),
\* with the configured strategies or with one more whose resample is not
\* a key of the cache
AbsentInterval == 5
CacheSamples ==
    { cs \in [BarIntervals -> {NoContract}
                \cup UNION { Contracts(i) \cup GappedContracts(i) :
                               i \in BarIntervals }] :
        \A i \in BarIntervals :
            cs[i] \in {NoContract} \cup Contracts(i) \cup GappedContracts(i) }
StrategyDictSamples ==
    {StrategyIntervals, StrategyIntervals \o <<AbsentInterval>>}
StoredSignalSamples == {-SigDen, -1, 0, 1, SigDen}
\* final_signal is 0.0 until the first generate_signals has returned
GenInputs ==
    { in \in [contracts : CacheSamples, strategy_dict : StrategyDictSamples,
              stored : StoredSignalSamples] :
        (\E i \in BarIntervals : in.contracts[i] = NoContract)
            => in.stored = 0 }

GenInit ==
    /\ RestInit
    /\ \E in \in GenInputs :
          fx = [fn |-> "generate_signals", contracts |-> in.contracts,
                strategy_dict |-> in.strategy_dict, stored |-> in.stored,
                out |-> <<>>]

GenCall ==
    /\ fx.fn = "generate_signals"
    /\ fx.out = <<>>
    /\ fx' = [fx EXCEPT !.out =
                 <<generate_signals(fx.contracts, fx.strategy_dict,
                                    combine_kind, fx.stored)>>]
    /\ UNCHANGED rest

GenNext == GenCall

GenSpec == GenInit /\ [][GenNext]_vars

\* ------------------------------------------------ async_script.fetch_data
\* instrument_info["intervals"]
AsyncIntervals == {"1m", "5m"}

\* how often a call fails before it succeeds; Always: it never succeeds
Always == -1
FailCounts == 0..MaxFails \cup {Always}
FailsNow(n, attempt) == n = Always \/ attempt < n

\* tenacity's default stop=stop_never: no attempt is the last
stop_never(attempt) == FALSE

\* a fetch_interval_data that gives up at the first FetchError
retry_fetchNever(exc) == FALSE
\* retry=retry_if_exception_type(FetchError) of fetch_interval_data
retry_fetch(exc) == exc = "FetchError"

\* retry=retry_if_exception_type(ProcessingError) of convert_to_Contract
retry_process(exc) == exc = "ProcessingError"

\* fetch_data is called: one fetch_interval_data task per interval
AsyncInit ==
    /\ RestInit
    /\ \E ff \in [AsyncIntervals -> FailCounts],
          pf \in [AsyncIntervals -> {0, 1, Always}] :
          fx = [fn |-> "fetch_data",
                fetch_fails |-> ff,
                proc_fails |-> pf,
                phase |-> "fetch",
                task |-> [i \in AsyncIntervals |-> "running"],
                attempts |-> [i \in AsyncIntervals |-> 0],
                raw_results |-> {},
                processed |-> {},
                result |-> "none",
                data_dict |-> {}]

\* the attempt count, kept up to one more than the failures counted
NextAttempt(n) == IF n <= MaxFails THEN n + 1 ELSE n

\* one attempt of fetch_interval_data(i): get_candlesticks answers, or its
\* exception is wrapped into FetchError and tenacity decides
FetchAttempt(i) ==
    /\ fx.fn = "fetch_data"
    /\ fx.phase = "fetch"
    /\ fx.task[i] = "running"
    /\ LET n == fx.attempts[i]
       IN  IF FailsNow(fx.fetch_fails[i], n)
           THEN fx' = [fx EXCEPT
                         !.attempts[i] = NextAttempt(n),
                         !.task[i] = IF retry_fetch("FetchError")
                                        /\ ~stop_never(n + 1)
                                     THEN "waiting" ELSE "failed"]
           ELSE fx' = [fx EXCEPT
                         !.attempts[i] = NextAttempt(n),
                         !.task[i] = "done",
                         !.raw_results = @ \cup {i}]
    /\ UNCHANGED rest

\* one attempt of convert_to_Contract(i)
ProcessAttempt(i) ==
    /\ fx.fn = "fetch_data"
    /\ fx.phase = "process"
    /\ fx.task[i] = "running"
    /\ LET n == fx.attempts[i]
       IN  IF FailsNow(fx.proc_fails[i], n)
           THEN fx' = [fx EXCEPT
                         !.attempts[i] = NextAttempt(n),
                         !.task[i] = IF retry_process("ProcessingError")
                                        /\ ~stop_never(n + 1)
                                     THEN "waiting" ELSE "failed"]
           ELSE fx' = [fx EXCEPT
                         !.attempts[i] = NextAttempt(n),
                         !.task[i] = "done",
                         !.processed = @ \cup {i}]
    /\ UNCHANGED rest

\* the wait of wait_exponential is over: the next attempt starts
Backoff(i) ==
    /\ fx.fn = "fetch_data"
    /\ fx.task[i] = "waiting"
    /\ fx' = [fx EXCEPT !.task[i] = "running"]
    /\ UNCHANGED rest

\* the first gather has returned: one convert_to_Contract task per raw
\* result that is not an exception
GatherFetched ==
    /\ fx.fn = "fetch_data"
    /\ fx.phase = "fetch"
    /\ \A i \in AsyncIntervals : fx.task[i] \in {"done", "failed"}
    /\ fx' = [fx EXCEPT
                !.phase = "process",
                !.task = [i \in AsyncIntervals |->
                            IF i \in fx.raw_results THEN "running"
                            ELSE "skipped"],
                !.attempts = [i \in AsyncIntervals |-> 0]]
    /\ UNCHANGED rest

\* the second gather has returned: the comprehension unpacks every
\* processed result (an exception among them cannot be unpacked and the
\* TypeError is raised again by the except clause), then fetch_data returns
GatherProcessed ==
    /\ fx.fn = "fetch_data"
    /\ fx.phase = "process"
    /\ \A i \in AsyncIntervals : fx.task[i] \in {"done", "failed", "skipped"}
    /\ IF \E i \in AsyncIntervals : fx.task[i] = "failed"
       THEN fx' = [fx EXCEPT !.phase = "over", !.result = "raised"]
       ELSE fx' = [fx EXCEPT !.phase = "over", !.result = "returned",
                             !.data_dict = fx.processed]
    /\ UNCHANGED rest

AsyncNext ==
    \/ \E i \in AsyncIntervals : FetchAttempt(i)
    \/ \E i \in AsyncIntervals : ProcessAttempt(i)
    \/ \E i \in AsyncIntervals : Backoff(i)
    \/ GatherFetched
    \/ GatherProcessed

AsyncSpec == AsyncInit /\ [][AsyncNext]_vars

\* the event loop runs every task that can run
AsyncFairSpec == AsyncSpec /\ WF_vars(AsyncNext)

\* -------------------------------------------- DataManager.should_fetch_bars
\* should_fetch_bars on its own, for a configuration with more intervals,
\* each cached or not, at every minute of the hour
DueIntervals == {1, 3, 5, 7, 15}
Minutes == 0..59
CachedSeries(i) == [interval |-> i, atr |-> 100, sig |-> 0, age |-> 0]
DueCaches ==
    { [i \in DueIntervals |-> IF i \in fetched THEN CachedSeries(i)
                              ELSE NoContract] :
        fetched \in SUBSET DueIntervals }

DueInit ==
    /\ RestInit
    /\ \E cs \in DueCaches, m \in Minutes :
          fx = [fn |-> "should_fetch_bars", contracts |-> cs, minute |-> m,
                out |-> <<>>]

DueCall ==
    /\ fx.fn = "should_fetch_bars"
    /\ fx.out = <<>>
    /\ fx' = [fx EXCEPT !.out = <<should_fetch_bars(fx.contracts, fx.minute)>>]
    /\ UNCHANGED rest

DueNext == DueCall

DueSpec == DueInit /\ [][DueNext]_vars

\* ------------------------------------- DataManager.fetch_and_process_data
\* One call of fetch_and_process_data(bar_interval) on its own, with every
\* age the last candle can have around the limit.  @retry has no stop: an
\* attempt that raises is followed by a wait and another attempt.
FetchAges(i) ==
    { 0, SecondsPerMinute * i - 1, SecondsPerMinute * i,
      SecondsPerMinute * i + 1, 2 * SecondsPerMinute * i - 1,
      2 * SecondsPerMinute * i }
FetchedSeries(i) ==
    [interval : {i, 2 * i}, atr : {100}, sig : {0}, age : FetchAges(i)]

FetchInit ==
    /\ RestInit
    /\ \E i \in BarIntervals :
          fx = [fn |-> "fetch_and_process_data", bar_interval |-> i,
                state |-> "running", attempts |-> 0, incomplete |-> 0,
                cache |-> NoContract]

\* gateway.fetch_and_process raised: logged and raised again, nothing stored
FetchRaises ==
    /\ fx.fn = "fetch_and_process_data"
    /\ fx.state = "running"
    /\ fx' = [fx EXCEPT !.state = "waiting",
                        !.attempts = NextAttempt(@)]
    /\ UNCHANGED rest

\* the gateway answered: the series is stored, then is_data_complete decides
\* between returning and raising
FetchStores ==
    /\ fx.fn = "fetch_and_process_data"
    /\ fx.state = "running"
    /\ \E polled_contract \in FetchedSeries(fx.bar_interval) :
          fx' = [fx EXCEPT
                   !.cache = polled_contract,
                   !.attempts = NextAttempt(@),
                   !.incomplete = IF is_data_complete(polled_contract)
                                  THEN @ ELSE NextAttempt(@),
                   !.state = IF is_data_complete(polled_contract)
                             THEN "returned" ELSE "waiting"]
    /\ UNCHANGED rest

\* wait_random_exponential is over: the next attempt starts
FetchBackoff ==
    /\ fx.fn = "fetch_and_process_data"
    /\ fx.state = "waiting"
    /\ fx' = [fx EXCEPT !.state = "running"]
    /\ UNCHANGED rest

FetchNext == FetchRaises \/ FetchStores \/ FetchBackoff
FetchSpec == FetchInit /\ [][FetchNext]_vars

\* ------------------------------------------------------ TradingSystem.run
\* run on its own, with the second of the wall clock.  A job lasts at least
\* the time.sleep(1) that ends it, and any longer when fetches are retried.
Seconds == 0..59
JobDurations == {1, 2, 4, 40, 59, 60, 61}
NoSleep == -1
sleep_secondsFixedPeriod(now_seconds) == 60
sleep_seconds(now_seconds) == (20 - now_seconds) % 60
NextJob(n) == IF n <= MaxCycles THEN n + 1 ELSE n

RunInit ==
    /\ RestInit
    /\ \E s \in Seconds :
          fx = [fn |-> "run", state |-> "startup", boot |-> s, now |-> s,
                jobs |-> 0, started |-> NoSleep, now_seconds |-> NoSleep,
                sleep_seconds |-> NoSleep]

\* the start message, then the first job with no sleep before it
RunFirstJob ==
    /\ fx.fn = "run"
    /\ fx.state = "startup"
    /\ \E push \in PushResults :
          fx' = IF push = "ok"
                THEN [fx EXCEPT !.state = "job", !.jobs = 1,
                                !.started = fx.now]
                ELSE [fx EXCEPT !.state = "ended"]
    /\ UNCHANGED rest

\* job returns after d seconds
RunJobReturns ==
    /\ fx.fn = "run"
    /\ fx.state = "job"
    /\ \E d \in JobDurations :
          fx' = [fx EXCEPT !.state = "loop", !.now = (@ + d) % 60]
    /\ UNCHANGED rest

\* job raises: run's except ends the loop
RunJobRaises ==
    /\ fx.fn = "run"
    /\ fx.state = "job"
    /\ \E d \in JobDurations :
          fx' = [fx EXCEPT !.state = "ended", !.now = (@ + d) % 60]
    /\ UNCHANGED rest

\* one turn of the while loop up to the start of the job
RunSleepThenJob ==
    /\ fx.fn = "run"
    /\ fx.state = "loop"
    /\ fx' = [fx EXCEPT !.now_seconds = fx.now,
                        !.sleep_seconds = sleep_seconds(fx.now),
                        !.now = (fx.now + sleep_seconds(fx.now)) % 60,
                        !.started = (fx.now + sleep_seconds(fx.now)) % 60,
                        !.jobs = NextJob(@),
                        !.state = "job"]
    /\ UNCHANGED rest

RunNext == RunFirstJob \/ RunJobReturns \/ RunJobRaises \/ RunSleepThenJob
RunSpec == RunInit /\ [][RunNext]_vars

\* ------------------------------------------ SignalManager.combine_signals
\* combine_signals on its own, on every list of up to MaxSignals last
\* signals and both kinds
MaxSignals == 4
CombineKinds == {"sum", "vote"}
SignalLists == UNION { [1..n -> SigSamples] : n \in 0..MaxSignals }

CombineInit ==
    /\ RestInit
    /\ \E signals \in SignalLists, kind \in CombineKinds :
          fx = [fn |-> "combine_signals", signals |-> signals,
                combine_kind |-> kind, out |-> <<>>]

CombineCall ==
    /\ fx.fn = "combine_signals"
    /\ fx.out = <<>>
    /\ fx' = [fx EXCEPT !.out =
                 <<combine_signals_quotient(fx.signals, fx.combine_kind)>>]
    /\ UNCHANGED rest

CombineNext == CombineCall
CombineSpec == CombineInit /\ [][CombineNext]_vars

\* -------------------------------------------- SignalVoter (threshold mode)
\* SignalVoter on one bar: signals[k] is what generator k emits on the bar,
\* the threshold parameter is the fraction <<numerator, denominator>>
ThresholdSamples == { <<1, 4>>, <<1, 3>>, <<1, 2>>, <<3, 4>>, <<1, 1>> }
VoterLists == UNION { [1..n -> SigSamples] : n \in 1..MaxSignals }

\* SignalVoter.__init__: int(len(signal_generators) * threshold)
voter_threshold(n, threshold) == (n * threshold[1]) \div threshold[2]
\* SignalVoter.generate_signals, mode "threshold", on one bar: the zeros,
\* then 1 where sum_s >= threshold, then -1 where sum_s <= -threshold
voter_generate_signals(signals, T) ==
    LET sum_s == SumSeq(signals)
        s0 == 0
        s1 == IF sum_s >= T THEN 1 ELSE s0
        s2 == IF sum_s <= -T THEN -1 ELSE s1
    IN  s2

VoterInit ==
    /\ RestInit
    /\ \E signals \in VoterLists, threshold \in ThresholdSamples :
          fx = [fn |-> "SignalVoter", signals |-> signals,
                threshold_param |-> threshold,
                threshold |-> voter_threshold(Len(signals), threshold),
                out |-> <<>>]

VoterCall ==
    /\ fx.fn = "SignalVoter"
    /\ fx.out = <<>>
    /\ fx' = [fx EXCEPT !.out =
                 <<voter_generate_signals(fx.signals, fx.threshold)>>]
    /\ UNCHANGED rest

VoterNext == VoterCall
VoterSpec == VoterInit /\ [][VoterNext]_vars

\* ------------------------------------------------ MAOverlap.generate_signals
\* MAOverlap.generate_signals on series of up to MaxBars bars.  A moving
\* average is NaN on its first bars; the lag average, being the longer one,
\* is NaN wherever the lead average is.
MaxBars == 3
NaN == -1000
MaSamples == {NaN, 1, 2}
OverlapModes == {1, 2, 3}
\* a comparison that orders NaN like a number
GreaterUnordered(a, b) == a > b
\* numpy's > and < are False when either side is NaN
Greater(a, b) == a # NaN /\ b # NaN /\ a > b
Less(a, b) == a # NaN /\ b # NaN /\ a < b
NaNIsPrefix(ma) ==
    \A k \in DOMAIN ma : ma[k] = NaN => \A j \in 1..k : ma[j] = NaN
MaPairs ==
    UNION { { p \in [lead : [1..n -> MaSamples], lag : [1..n -> MaSamples]] :
                /\ NaNIsPrefix(p.lead)
                /\ NaNIsPrefix(p.lag)
                /\ \A k \in 1..n : p.lead[k] = NaN => p.lag[k] = NaN }
            : n \in 0..MaxBars }

\* every mode emits both signs
gen_overlap_signalsUnfiltered(close, lead, lag, mode) ==
    [k \in 1..Len(close) |->
        IF Less(lead[k], lag[k]) THEN -1
        ELSE IF Greater(lead[k], lag[k]) THEN 1 ELSE 0]
\* TradeSignalGenerator.gen_overlap_signals: zeros of the length of close,
\* then the masked assignments of the mode
gen_overlap_signals(close, lead, lag, mode) ==
    [k \in 1..Len(close) |->
        LET s0 == 0
        IN  IF mode = 1
            THEN IF Greater(lead[k], lag[k]) THEN 1 ELSE s0
            ELSE IF mode = 2
            THEN IF Less(lead[k], lag[k]) THEN -1 ELSE s0
            ELSE IF mode = 3
            THEN IF Less(lead[k], lag[k]) THEN -1
                 ELSE IF Greater(lead[k], lag[k]) THEN 1 ELSE s0
            ELSE s0]
\* np.nan_to_num
nan_to_num(s) == [k \in DOMAIN s |-> IF s[k] = NaN THEN 0 ELSE s[k]]
\* MAOverlap.generate_signals, the two averages standing for data
ma_overlap_generate_signals(lead_ma_arr, lag_ma_arr, mode) ==
    nan_to_num(gen_overlap_signals(lead_ma_arr, lead_ma_arr,
                                   lag_ma_arr, mode))

OverlapInit ==
    /\ RestInit
    /\ \E p \in MaPairs, mode \in OverlapModes :
          fx = [fn |-> "MAOverlap.generate_signals", lead_ma |-> p.lead,
                lag_ma |-> p.lag, mode |-> mode, out |-> <<>>, done |-> FALSE]

OverlapCall ==
    /\ fx.fn = "MAOverlap.generate_signals"
    /\ ~fx.done
    /\ fx' = [fx EXCEPT !.out = ma_overlap_generate_signals(
                                    fx.lead_ma, fx.lag_ma, fx.mode),
                        !.done = TRUE]
    /\ UNCHANGED rest

OverlapNext == OverlapCall
OverlapSpec == OverlapInit /\ [][OverlapNext]_vars

\* --------------------------------------------- RSICrossover.generate_signals
\* RSICrossover.generate_signals on series of up to MaxBars bars; the RSI is
\* NaN on its first bars
RsiThresh == 50
RsiSamples == {NaN, 40, 50, 60}
RsiSeries ==
    UNION { { r \in [1..n -> RsiSamples] : NaNIsPrefix(r) } : n \in 0..MaxBars }

\* TradeSignalGenerator.gen_crossover_signals: zeros of the length of ind,
\* then the masked assignments of the mode
gen_crossover_signals(ind, thresh, mode) ==
    [k \in 1..Len(ind) |->
        LET s0 == 0
        IN  IF mode = 1
            THEN IF Greater(ind[k], thresh) THEN 1 ELSE s0
            ELSE IF mode = 2
            THEN IF Greater(ind[k], thresh) THEN -1 ELSE s0
            ELSE IF mode = 3
            THEN IF Less(ind[k], thresh) THEN -1
                 ELSE IF Greater(ind[k], thresh) THEN 1 ELSE s0
            ELSE s0]
\* RSICrossover.generate_signals, rsi_arr standing for data
rsi_crossover_generate_signals(rsi_arr, mode) ==
    nan_to_num(gen_crossover_signals(rsi_arr, RsiThresh, mode))

CrossInit ==
    /\ RestInit
    /\ \E r \in RsiSeries, mode \in OverlapModes :
          fx = [fn |-> "RSICrossover.generate_signals", rsi |-> r,
                mode |-> mode, out |-> <<>>, done |-> FALSE]

CrossCall ==
    /\ fx.fn = "RSICrossover.generate_signals"
    /\ ~fx.done
    /\ fx' = [fx EXCEPT !.out = rsi_crossover_generate_signals(fx.rsi, fx.mode),
                        !.done = TRUE]
    /\ UNCHANGED rest

CrossNext == CrossCall
CrossSpec == CrossInit /\ [][CrossNext]_vars

\* ---------------------------------------------- the two signal generators
\* one call of either MAOverlap.generate_signals or
\* RSICrossover.generate_signals
IndicatorInit == OverlapInit \/ CrossInit
IndicatorNext == OverlapCall \/ CrossCall
IndicatorSpec == IndicatorInit /\ [][IndicatorNext]_vars

\* ------------------------------- TradeSignalGenerator.discretize_signals
\* discretize_signals on every sequence of up to MaxBars values of
\* {-1, 0, +1}
DiscreteSeries == UNION { [1..n -> SigSamples] : n \in 0..MaxBars }
\* np.roll(a, 1): the last element comes first
roll1(a) ==
    [k \in 1..Len(a) |-> IF k = 1 THEN a[Len(a)] ELSE a[k - 1]]
\* TradeSignalGenerator.discretize_signals: the difference with the rolled
\* sequence, clipped in modes 1 and 2 and left as it is otherwise
discretize_signals(signals, mode) ==
    LET rolled_signals == roll1(signals)
        diff == [k \in 1..Len(signals) |-> signals[k] - rolled_signals[k]]
    IN  [k \in 1..Len(signals) |->
            IF mode = 1
            THEN IF diff[k] > 0 THEN 1 ELSE IF diff[k] < 0 THEN 0 ELSE diff[k]
            ELSE IF mode = 2
            THEN IF diff[k] < 0 THEN -1 ELSE IF diff[k] > 0 THEN 0 ELSE diff[k]
            ELSE diff[k]]

DiscInit ==
    /\ RestInit
    /\ \E s \in DiscreteSeries, mode \in OverlapModes :
          fx = [fn |-> "discretize_signals", signals |-> s, mode |-> mode,
                out |-> <<>>, done |-> FALSE]

DiscCall ==
    /\ fx.fn = "discretize_signals"
    /\ ~fx.done
    /\ fx' = [fx EXCEPT !.out = discretize_signals(fx.signals, fx.mode),
                        !.done = TRUE]
    /\ UNCHANGED rest

DiscNext == DiscCall
DiscSpec == DiscInit /\ [][DiscNext]_vars

\* ---------------------------------------------------------- Contract.resample
\* Contract.resample on series of 2 to MaxBars + 1 bars (from_dataframe
\* needs two candles); a bar is its open, high, low, close and volume
BarSamples ==
    { [open |-> 1, high |-> 3, low |-> 1, close |-> 2, volume |-> 1],
      [open |-> 2, high |-> 4, low |-> 2, close |-> 3, volume |-> 2],
      [open |-> 3, high |-> 3, low |-> 0, close |-> 1, volume |-> 4] }
MinBars == 2
BarSeries == UNION { [1..n -> BarSamples] : n \in MinBars..(MaxBars + 1) }
ResampleIntervals == {2, 3}
ValueError == [raised |-> TRUE, bars |-> <<>>]

Max(S) == CHOOSE x \in S : \A y \in S : y <= x
Min(S) == CHOOSE x \in S : \A y \in S : x <= y
RECURSIVE SumOver(_, _)
SumOver(f, S) ==
    IF S = {} THEN 0
    ELSE LET x == CHOOSE y \in S : TRUE IN f[x] + SumOver(f, S \ {x})
\* the source bars of window k of sliding_window_view(data, interval)
\* [::interval], counted from 1
Window(k, interval) == ((k - 1) * interval + 1)..(k * interval)

\* Contract.resample for interval > 1.  a[interval - 1 :: interval] is the
\* element k * interval of a, counted from 1; sliding_window_view raises
\* ValueError when the window is longer than the array
resample(bars, interval) ==
    LET num_periods == Len(bars) \div interval
    IN  IF Len(bars) < interval THEN ValueError
        ELSE [raised |-> FALSE,
              bars |->
                [k \in 1..num_periods |->
                   [open |-> bars[k * interval].open,
                    high |-> Max({ bars[j].high : j \in Window(k, interval) }),
                    low |-> Min({ bars[j].low : j \in Window(k, interval) }),
                    close |-> bars[k * interval].close,
                    volume |-> SumOver([j \in Window(k, interval) |->
                                           bars[j].volume],
                                       Window(k, interval))]]]

ResampleInit ==
    /\ RestInit
    /\ \E b \in BarSeries, interval \in ResampleIntervals :
          fx = [fn |-> "resample", bars |-> b, interval |-> interval,
                out |-> <<>>]

ResampleCall ==
    /\ fx.fn = "resample"
    /\ fx.out = <<>>
    /\ fx' = [fx EXCEPT !.out = <<resample(fx.bars, fx.interval)>>]
    /\ UNCHANGED rest

ResampleNext == ResampleCall
ResampleSpec == ResampleInit /\ [][ResampleNext]_vars

\* ------------------------------------------------------------- interpolate
\* interpolate as SignalVoter.generate_signals calls it: the signal s was
\* computed on data.resample(interval), so it has datalen // interval
\* values.  The value of resampled bar k is k or -k, so that an output
\* entry tells which resampled bar it comes from.
InterpIntervals == {2, 3}
InterpLens(interval) == interval..(3 * MaxBars)
TaggedSignals(m) ==
    { [k \in 1..m |-> IF k \in up THEN k ELSE -k] : up \in SUBSET (1..m) }

\* an interpolation that repeats without shifting
interpolateNoShift(s, datalen) ==
    LET factor == datalen \div Len(s)
    IN  [i \in 1..datalen |->
            IF i <= factor * Len(s) THEN s[(i - 1) \div factor + 1] ELSE 0]
\* interpolate: zeros, np.repeat(s, factor) in front, np.roll by factor,
\* then the first factor entries set to 0
interpolate(s, datalen) ==
    LET factor == datalen \div Len(s)
        repeated == [j \in 1..datalen |->
                        IF j <= factor * Len(s)
                        THEN s[(j - 1) \div factor + 1] ELSE 0]
        rolled == [i \in 1..datalen |->
                        repeated[((i - 1 - factor) % datalen) + 1]]
    IN  [i \in 1..datalen |-> IF i <= factor THEN 0 ELSE rolled[i]]

InterpInit ==
    /\ RestInit
    /\ \E interval \in InterpIntervals :
       \E datalen \in InterpLens(interval) :
       \E s \in TaggedSignals(datalen \div interval) :
          fx = [fn |-> "interpolate", interval |-> interval,
                datalen |-> datalen, s |-> s, out |-> <<>>, done |-> FALSE]

InterpCall ==
    /\ fx.fn = "interpolate"
    /\ ~fx.done
    /\ fx' = [fx EXCEPT !.out = interpolate(fx.s, fx.datalen),
                        !.done = TRUE]
    /\ UNCHANGED rest

InterpNext == InterpCall
InterpSpec == InterpInit /\ [][InterpNext]_vars

\* ------------------------------------------------- the cycles on the clock
\* run and job with the wall clock in seconds: which series a cycle
\* fetches, how old the cached ones are when generate_signals runs.  The
\* last candle of what the exchange returns is the one in progress, or the
\* one before it when the exchange lags.
MaxClock == 600
NoCandle == -1
BootSeconds == {20, 50, 170}
FetchDurations == {1, 50}
CandleOpen(t, i) == (t \div (SecondsPerMinute * i)) * (SecondsPerMinute * i)
\* the cache as should_fetch_bars and is_data_complete see it
ClockSeries(i, last, t) ==
    IF last = NoCandle THEN NoContract
    ELSE [interval |-> i, atr |-> 100, sig |-> 0, age |-> t - last]

ClockInit ==
    /\ RestInit
    /\ \E s \in BootSeconds :
          fx = [fn |-> "clock", pc |-> "job", now |-> s, pending |-> {},
                last |-> [i \in BarIntervals |-> NoCandle]]

\* job: periodic_sync_tasks reads the minute and chooses the fetches
ClockJobStart ==
    /\ fx.fn = "clock"
    /\ fx.pc = "job"
    /\ fx.now < MaxClock
    /\ LET cs == [i \in BarIntervals |-> ClockSeries(i, fx.last[i], fx.now)]
           now_minute == (fx.now \div SecondsPerMinute) % 60
       IN  fx' = [fx EXCEPT !.pc = "sync",
                            !.pending = should_fetch_bars(cs, now_minute)]
    /\ UNCHANGED rest

\* one attempt of fetch_and_process_data(i), d seconds long: the series is
\* stored; the task ends when is_data_complete holds and is retried if not
ClockFetch(i) ==
    /\ fx.fn = "clock"
    /\ fx.pc = "sync"
    /\ i \in fx.pending
    /\ fx.now < MaxClock
    /\ \E d \in FetchDurations, lag \in {0, 1} :
          LET t == fx.now + d
              candle == CandleOpen(t, i) - lag * SecondsPerMinute * i
          IN  /\ candle >= 0
              /\ fx' = [fx EXCEPT
                          !.now = t,
                          !.last[i] = candle,
                          !.pending =
                             IF is_data_complete(ClockSeries(i, candle, t))
                             THEN @ \ {i} ELSE @]
    /\ UNCHANGED rest

\* the gather is done: generate_signals runs on the cache
ClockGenerateSignals ==
    /\ fx.fn = "clock"
    /\ fx.pc = "sync"
    /\ fx.pending = {}
    /\ fx' = [fx EXCEPT !.pc = "generated"]
    /\ UNCHANGED rest

\* the time.sleep(1) that ends job, then run's sleep up to second 20
ClockSleep ==
    /\ fx.fn = "clock"
    /\ fx.pc = "generated"
    /\ LET t == fx.now + 1
       IN  fx' = [fx EXCEPT !.pc = "job",
                            !.now = t + sleep_seconds(t % SecondsPerMinute)]
    /\ UNCHANGED rest

ClockNext ==
    \/ ClockJobStart
    \/ \E i \in BarIntervals : ClockFetch(i)
    \/ ClockGenerateSignals
    \/ ClockSleep
ClockSpec == ClockInit /\ [][ClockNext]_vars

\* ------------------------------------------------------------------ claims
Calls(op) == SelectSeq(calls, LAMBDA c : c.op = op)
TradingCalls ==
    SelectSeq(calls, LAMBDA c : c.op \in {"set_leverage", "place_order"})
\* current leverage and quantity as the claims name them
CurrentLever == IF posdata = <<>> THEN 0 ELSE posdata[1].lever
CurrentQty == IF posdata = <<>> THEN 0 ELSE posdata[1].qty
Rejected(result) == result.code \notin {"0", "none", "raise"}

\* C1: a cycle whose generate_signals reported changed = false makes no
\* set_leverage, place_order, get_order or confirm-position call; execute
\* does not run in it.
C1_UnchangedNoCalls ==
    ~signal_changed => calls = <<>> /\ ~exe.ran /\ pc # "adjust"

\* a second cycle found the non-zero value the first cycle had stored
C1_Witness ==
    /\ pc = "sleep"
    /\ cycle = 2
    /\ ~signal_changed
    /\ final_signal # 0
    /\ pos_man.target_pos # 0

\* C2: generate_signals starts (the job leaves its gather, final_signal is
\* written) only when no task of periodic_sync_tasks is left, and execute
\* runs only after generate_signals has returned (with changed = true).
C2_GatherThenGenerateThenExecute ==
    [][ /\ (pc = "sync" /\ pc' # "sync") => pending = {}
        /\ final_signal' # final_signal => pc = "sync" /\ pending = {}
        /\ (exe'.ran /\ ~exe.ran) => pc = "adjust" /\ signal_changed
      ]_vars

\* execute ran after a gather in which a read was retried and both
\* intervals were fetched
C2_Witness ==
    /\ exe.ran
    /\ retries > 0
    /\ cycle = 1
    /\ \A i \in BarIntervals : is_data_complete(contracts[i])

\* C3: a cycle starts only when no cycle is in progress: run is at its top
\* or in its sleep and no task of the previous cycle is left.
C3_NoCycleOverlap ==
    [][ cycle' # cycle => pc \in {"ready", "sleep"} /\ pending = {} ]_vars

\* the second cycle runs after a first one that placed and confirmed an order
C3_Witness ==
    /\ cycle = 2
    /\ pc = "sync"
    /\ pos_man.last_orderid = 1

\* C4 as written: no place_order when |qty_diff| < 1 contract, exactly one in
\* every other case, buy when qty_diff > 0 and sell otherwise, of size
\* abs(round(qty_diff, 1)).
C4_OrderIffAtLeastIncrement ==
    exe.ran =>
        IF Abs(exe.qty_diff) < MinQtyDiff * QtyScale
        THEN Len(Calls("place_order")) = 0
        ELSE Len(Calls("place_order")) = 1

\* C4 amended: no place_order when |qty_diff| <= 1 contract; when
\* |qty_diff| > 1, exactly one place_order unless the set_leverage call
\* raised (then none); side buy when qty_diff > 0 and sell otherwise; size
\* the tenth of a contract nearest to |qty_diff|, a tie going to the even one.
C4_OrderIffAboveIncrement ==
    exe.ran =>
        LET orders == Calls("place_order")
            q == Abs(exe.qty_diff)
            u == QtyScale \div SzScale
        IN  /\ q <= MinQtyDiff * QtyScale => Len(orders) = 0
            /\ exe.lev = Raised => Len(orders) = 0
            /\ (q > MinQtyDiff * QtyScale /\ exe.lev # Raised) =>
                  /\ Len(orders) = 1
                  /\ orders[1].side = (IF exe.qty_diff > 0 THEN "buy" ELSE "sell")
                  /\ 2 * Abs(orders[1].sz * u - q) <= u
                  /\ 2 * Abs(orders[1].sz * u - q) = u => orders[1].sz % 2 = 0

\* execute met |qty_diff| = 1 contract exactly
C4_Witness ==
    /\ exe.ran
    /\ Abs(exe.qty_diff) = MinQtyDiff * QtyScale
    /\ ~exe.raised

\* C5: after _calc_target, target_lever is in [0, 100].
C5_LeverInRange ==
    pos_man.target_lever \in 0..LeverCap

\* C6 as written: every call of execute makes exactly one set_leverage call
\* and at most one place_order call.
C6_ExactlyOneLeverageCall ==
    exe.ran =>
        /\ Len(Calls("set_leverage")) = 1
        /\ Len(Calls("place_order")) <= 1

\* C6 amended: every call of execute makes at most one set_leverage call,
\* none at all when the target leverage equals the current leverage, and at
\* most one place_order call.
C6_AtMostOneLeverageCall ==
    exe.ran =>
        /\ Len(Calls("set_leverage")) <= 1
        /\ Len(Calls("place_order")) <= 1
        /\ pos_man.target_lever = CurrentLever => Len(Calls("set_leverage")) = 0

\* execute found the live leverage equal to the target and only placed an order
C6_Witness ==
    /\ exe.ran
    /\ pos_man.target_lever = CurrentLever
    /\ Len(Calls("place_order")) = 1

\* C7: execute calls set_leverage exactly when lever_diff = target_lever -
\* current leverage is not 0, and the leverage it sends is target_lever.
C7_LeverageOnlyOnDiff ==
    exe.ran =>
        /\ exe.lever_diff = pos_man.target_lever - CurrentLever
        /\ exe.lever_diff = 0 => Len(Calls("set_leverage")) = 0
        /\ exe.lever_diff # 0 => Len(Calls("set_leverage")) = 1
        /\ \A k \in DOMAIN calls :
              calls[k].op = "set_leverage" => calls[k].lever = pos_man.target_lever

\* execute sent an uncapped leverage against an open position
C7_Witness ==
    /\ exe.ran
    /\ posdata # <<>>
    /\ exe.lever_diff # 0
    /\ pos_man.target_lever \in 1..(LeverCap - 1)
    /\ Len(Calls("set_leverage")) = 1

\* C8: with an empty position list, lever_diff = target_lever and qty_diff =
\* target_qty, and an exception leaves execute only from a gateway call.
C8_EmptyPositionIsFlat ==
    (exe.ran /\ posdata = <<>>) =>
        /\ current_posdata(posdata) = NonePos
        /\ exe.lever_diff = pos_man.target_lever
        /\ exe.qty_diff = pos_man.target_qty
        /\ exe.raised =>
              \/ exe.lev = Raised
              \/ exe.ord = Raised
              \/ exe.ord.data = <<>> /\ exe.ord.code # "none"

\* execute ran against an empty position list with a non-zero target
C8_Witness ==
    /\ exe.ran
    /\ posdata = <<>>
    /\ exe.qty_diff # 0
    /\ exe.lever_diff # 0
    /\ ~exe.raised

\* C9: flat, signal_strength = 1, ATR = 100, max_risk = 1000, tol = 1,
\* mark_price = 50000, contract_size = 0.001: target_pos = 10,
\* target_notional = 500000, target_lever = 100 (from 500), target_qty =
\* 10000; set_leverage(100), then one buy order of size 10000 (execute is left
\* after set_leverage when that call raises).
ScenarioA ==
    /\ exe.ran
    /\ posdata = <<>>
    /\ final_signal = 1 * SigDen
    /\ contracts[bar_interval].atr = 100
    /\ mark_price = 50000
    /\ max_risk = 1000
    /\ tol = 1
    /\ ContractSizeMicro * 1000 = PosScale

C9_ScenarioA ==
    ScenarioA =>
        /\ pos_man.target_pos = 10 * PosScale
        /\ pos_man.target_notional = 500000 * NotionalScale
        /\ pos_man.target_notional \div (max_risk * NotionalScale) = 500
        /\ pos_man.target_lever = 100
        /\ pos_man.target_qty = 10000 * QtyScale
        /\ TradingCalls =
              IF exe.lev = Raised
              THEN <<SetLeverageCall(100)>>
              ELSE <<SetLeverageCall(100), PlaceOrderCall("buy", 10000 * SzScale)>>

\* the scenario ran and both calls were answered
C9_Witness ==
    /\ ScenarioA
    /\ exe.lev.code = "0"
    /\ exe.ord.code = "0"
    /\ pos_man.last_orderid = cycle

ConfigInvalid ==
    \E k \in DOMAIN strategy_configs :
        \/ strategy_configs[k].name \notin strategy_classes
        \/ ~strategy_configs[k].params_valid

C18_PushFailureContained ==
    /\ cycle = 0 => pc \notin {"except", "stopped"}
    /\ (signal_changed /\ pc # "adjust") => exe.ran

\* ------------------------------------------------------------------- C11
\* a place_order of an earlier cycle was rejected: the order id stored
\* before this cycle's execute is the empty id of a rejected order
RejectedEarlier ==
    IF exe.ran THEN exe.pre.last_orderid = EmptyOrdId
    ELSE pos_man.last_orderid = EmptyOrdId

\* C11: after a rejected call, a cycle whose combined signal equals the
\* stored one makes no set_leverage or place_order call, and a cycle whose
\* combined signal differs runs execute: on the snapshot fetched in that
\* cycle it recomputes the targets and the diffs and issues the calls the
\* diffs ask for.
C11_RejectedRetriedOnNextChange ==
    RejectedEarlier =>
        /\ ~signal_changed => TradingCalls = <<>>
        /\ (signal_changed /\ pc # "adjust") =>
              /\ exe.ran
              /\ snap_cycle = cycle
              /\ pos_man.target_pos = get_target_pos(contracts, final_signal)
              /\ exe.lever_diff # 0 => Len(Calls("set_leverage")) = 1
              /\ (NeedsOrder(exe.qty_diff) /\ exe.lev # Raised)
                    => Len(Calls("place_order")) = 1

\* ------------------------------------------------------------------- C12
\* the candle fetches still running in the gather of the sync tasks
PendingFetches == { t \in pending : t[1] = "fetch" }

\* C12: a candle fetch that keeps failing does not hold up the cycle: in
\* the sync phase, when candle fetches are all that is still pending and
\* the retries of the cycle are used up, generate_signals can run on the
\* series of the other intervals.
C12_FailedFetchDoesNotBlock ==
    ( /\ pc = "sync"
      /\ retries = MaxRetries
      /\ pending # {}
      /\ pending = PendingFetches )
        => ENABLED GenerateSignals

\* ------------------------------------------------------------------- C13
\* the strategies generate_signals evaluates, those among them whose
\* _gen_signal raises, and the others
EvaluatedStrategies ==
    SelectSeq(StrategyIntervals, LAMBDA i : i \in DOMAIN contracts)
FailingStrategies ==
    SelectSeq(EvaluatedStrategies, LAMBDA i : gen_signal_error(contracts, i))
HealthyStrategies ==
    SelectSeq(EvaluatedStrategies, LAMBDA i : ~gen_signal_error(contracts, i))

\* C13: when the evaluation of a strategy raises in generate_signals, the
\* signals of the other strategies are combined and stored, and the cycle
\* goes on (to adjust_pos or to its end) instead of reaching run's except
\* clause, which would end the main loop.
C13_StrategyErrorIsolated ==
    [][ (pc = "sync" /\ pc' # "sync" /\ FailingStrategies # <<>>)
          => /\ pc' \in {"adjust", "jobend"}
             /\ final_signal' =
                  combine_signals(GatherSignals(contracts, HealthyStrategies),
                                  combine_kind) ]_vars

\* ------------------------------------------------------------------- C15
\* C15: when generate_signals returns, the flag it returns is true exactly
\* when the value it has just combined differs from the value that was
\* stored before the call, and the stored final_signal is the value just
\* combined, changed or not.
C15_ChangedIffDifferent ==
    [][ (pc = "sync" /\ pc' \in {"adjust", "jobend"})
          => LET new_signal ==
                   combine_signals(GatherSignals(contracts, StrategyIntervals),
                                   combine_kind)
             IN  /\ signal_changed' = (new_signal # final_signal)
                 /\ final_signal' = new_signal ]_vars

\* generate_signals has returned unchanged in a later cycle, and the stored
\* signal is the non-zero value of the earlier cycle
C15_Witness ==
    /\ cycle = 2
    /\ pc = "jobend"
    /\ ~signal_changed
    /\ final_signal # 0

\* ------------------------------------------------------------------- C16
\* both calls of _get_target_pos have returned
SizedTwice == fx.fn = "get_target_pos" /\ Len(fx.out) = 2

\* C16 as stated: the target_pos for the doubled max_risk is exactly twice
\* the target_pos for the original max_risk, rounding included.
C16_DoublingIsExact ==
    SizedTwice => fx.out[2] = 2 * fx.out[1]

\* four times the distance, in units of 10^-6 / (atr * SigDen), between the
\* unrounded (max_risk / atr) * signal_strength and its rounding
FourTimesRoundingError ==
    4 * Abs(fx.max_risk * Abs(fx.signal_strength) * PosScale
              - Abs(fx.out[1]) * fx.atr * SigDen)

\* C16: the target_pos for the doubled max_risk differs from twice the
\* target_pos for the original max_risk by at most one unit of the sixth
\* decimal, and it is exactly twice when the unrounded value lies within a
\* quarter of that unit of its rounding.
C16_DoublingUpToOneUnit ==
    SizedTwice =>
        /\ Abs(fx.out[2] - 2 * fx.out[1]) <= 1
        /\ FourTimesRoundingError < fx.atr * SigDen
              => fx.out[2] = 2 * fx.out[1]

\* doubling moved the sixth decimal: 1 / 3 gives 0.333333 and 2 / 3 gives
\* 0.666667
C16_Witness ==
    /\ SizedTwice
    /\ fx.max_risk = 1 /\ fx.atr = 3 /\ fx.signal_strength = SigDen
    /\ fx.out = <<333333, 666667>>

\* ------------------------------------------------------------------- C17
\* the strategy's interval has no series yet: it is not a key of the cache,
\* or the cached value is still None
HasNoSeries(i) ==
    i \notin DOMAIN fx.contracts \/ fx.contracts[i] = NoContract
StrategiesWithSeries ==
    SelectSeq(fx.strategy_dict, LAMBDA i : ~HasNoSeries(i))

\* C17: generate_signals skips a strategy whose interval has no series
\* yet: when the strategies that have a series evaluate without error, the
\* call raises nothing and stores the combination of their signals alone.
C17_NoSeriesIsSkipped ==
    ( /\ fx.fn = "generate_signals"
      /\ Len(fx.out) = 1
      /\ \E k \in DOMAIN fx.strategy_dict : HasNoSeries(fx.strategy_dict[k])
      /\ \A k \in DOMAIN StrategiesWithSeries :
            ~gen_signal_error(fx.contracts, StrategiesWithSeries[k]) )
        => /\ ~fx.out[1].raised
           /\ fx.out[1].final_signal =
                combine_signals(
                    GatherSignals(fx.contracts, StrategiesWithSeries),
                    combine_kind)

\* ------------------------------------------------------------------- C19
\* C19: whenever execute is about to run or has run in a cycle, the
\* position snapshot was written by update_current_posdata in that same
\* cycle, and the diffs of execute are those of the targets against that
\* snapshot.
C19_ExecuteUsesFreshSnapshot ==
    /\ (pc = "adjust" \/ exe.ran) => snap_cycle = cycle
    /\ exe.ran =>
          LET d == calc_diff(pos_man, current_posdata(posdata))
          IN  exe.lever_diff = d[1] /\ exe.qty_diff = d[2]

\* execute has run in the second cycle, after an order was placed in the
\* first, on a snapshot of the second cycle
C19_Witness ==
    /\ cycle = 2
    /\ exe.ran
    /\ exe.pre.last_orderid = 1
    /\ snap_cycle = 2
    /\ posdata # <<>>

\* ------------------------------------------------------------------- C20
\* C20: final_signal changes only in the step in which generate_signals
\* returns, which happens once per cycle (the sync phase is entered only by
\* the start of a new cycle); contracts changes only in a step of a pending
\* fetch_and_process_data, and only at that fetch's interval; the steps of
\* adjust_pos with execute and of confirm_order and confirm_pos change
\* neither.
C20_SignalAndCacheOwners ==
    [][ /\ final_signal' # final_signal
            => pc = "sync" /\ pc' \in {"adjust", "jobend"}
        /\ (pc # "sync" /\ pc' = "sync") => cycle' = cycle + 1
        /\ contracts' # contracts
            => /\ pc = "sync" /\ pc' = "sync"
               /\ \E t \in PendingFetches :
                     \A j \in BarIntervals \ {t[2]} :
                         contracts'[j] = contracts[j]
        /\ pc \in {"adjust", "confirm"}
            => UNCHANGED <<final_signal, contracts>> ]_vars

\* execute and both confirmations have run in a second cycle and the
\* stored signal and the cache are those generate_signals and the fetches
\* left
C20_Witness ==
    /\ cycle = 2
    /\ pc = "confirm"
    /\ pending = {}
    /\ Len(Calls("get_order")) = 1
    /\ final_signal # 0
    /\ \A i \in BarIntervals : contracts[i] \in Contracts(i)

\* ------------------------------------------------------------------- C21
\* the requested intervals whose fetch and whose processing come to succeed
Succeeding ==
    { i \in AsyncIntervals :
        fx.fetch_fails[i] # Always /\ fx.proc_fails[i] # Always }

\* C21: fetch_data comes to return a mapping whose keys are exactly the
\* requested intervals for which the fetch and the processing succeed: all
\* of them when everything succeeds, the others when one fetch fails, none
\* (an empty mapping, no exception) when every processing fails.
C21_ReturnsTheSucceeding ==
    (\E i \in AsyncIntervals : fx.fetch_fails[i] # Always)
        => <>(fx.result = "returned" /\ fx.data_dict = Succeeding)

\* ------------------------------------------------------------------- C22
\* C22: when the fetch of every requested interval fails on every attempt,
\* fetch_data comes to an end by raising an exception.
C22_AllFailingRaises ==
    (\A i \in AsyncIntervals : fx.fetch_fails[i] = Always)
        => <>(fx.result = "raised")

\* ------------------------------------------------------------------- C23
\* the fetch of i fails a finite number of times
FailsFinitely(i) == fx.fetch_fails[i] \in 1..MaxFails

\* C23: a fetch that fails a finite number of times is retried until it
\* succeeds: its task is never given up, it is done after as many attempts
\* as failures plus one, the mapping fetch_data returns holds the interval
\* with every other interval that succeeded, and when no fetch and no
\* processing fails for ever fetch_data does return.
C23_RetriedUntilSuccess ==
    /\ [](\A i \in AsyncIntervals :
            /\ fx.task[i] # "failed"
            /\ (fx.phase = "fetch" /\ fx.task[i] = "done")
                  => fx.attempts[i] = fx.fetch_fails[i] + 1
            /\ (fx.result = "returned" /\ FailsFinitely(i))
                  => i \in fx.data_dict /\ fx.data_dict = Succeeding)
    /\ (Succeeding = AsyncIntervals) => <>(fx.result = "returned")

\* fetch_data has returned both intervals, one of them fetched at the third
\* attempt
C23_Witness ==
    /\ fx.fn = "fetch_data"
    /\ fx.result = "returned"
    /\ fx.fetch_fails = [i \in AsyncIntervals |-> IF i = "5m" THEN 2 ELSE 0]
    /\ fx.data_dict = AsyncIntervals

\* ------------------------------------------------------------------- C24
\* C24: at every minute m of the hour should_fetch_bars returns exactly the
\* configured intervals that have no cached series yet or that divide m',
\* m' being 60 for m = 0 and m otherwise.
C24_DueExactly ==
    (fx.fn = "should_fetch_bars" /\ Len(fx.out) = 1) =>
        \A i \in DueIntervals :
            i \in fx.out[1]
              <=> \/ fx.contracts[i] = NoContract
                  \/ (IF fx.minute = 0 THEN 60 ELSE fx.minute) % i = 0

\* at minute 0 with every series cached, the intervals that divide 60 are
\* due and 7 is not
C24_Witness ==
    /\ fx.fn = "should_fetch_bars"
    /\ fx.minute = 0
    /\ \A i \in DueIntervals : fx.contracts[i] # NoContract
    /\ fx.out = << {1, 3, 5, 15} >>

\* C25: while the series that fetch_and_process_data fetched last has a
\* last candle one interval of the series or more older than the current
\* time, the call has not returned: it waits for, or runs, another attempt;
\* once it has returned, the cached series is younger than one interval.
C25_IncompleteIsRetried ==
    /\ (fx.cache # NoContract
          /\ fx.cache.age >= SecondsPerMinute * fx.cache.interval)
         => fx.state \in {"waiting", "running"}
    /\ fx.state = "returned"
         => /\ fx.cache # NoContract
            /\ fx.cache.age < SecondsPerMinute * fx.cache.interval
\* an incomplete series was fetched and retried, and the call has returned
C25_Witness ==
    /\ fx.fn = "fetch_and_process_data"
    /\ fx.state = "returned"
    /\ fx.incomplete >= 1
    /\ fx.attempts = fx.incomplete + 1
    /\ fx.cache.age = SecondsPerMinute * fx.cache.interval - 1

\* C26: on the first cycle, a fetch that stores an incomplete series is
\* accepted: its task is done and no retry is counted.
C26_FirstCycleAcceptsIncomplete ==
    [][\A i \in BarIntervals :
          (/\ cycle = 1
           /\ pc = "sync"
           /\ <<"fetch", i>> \in pending
           /\ contracts'[i] \in IncompleteContracts(i))
              => /\ <<"fetch", i>> \notin pending'
                 /\ retries' = retries]_vars

\* C27: the first job starts at the second run was started at, with no
\* sleep before it; before every later job run sleeps the one number of
\* seconds in 0..59 that is congruent to 20 - s modulo 60, s being the
\* second it read, and the job starts at second 20.
C27_AlignedToSecondTwenty ==
    /\ fx.state # "startup" /\ fx.jobs = 1
         => fx.started = fx.boot /\ fx.sleep_seconds = NoSleep
    /\ fx.jobs >= 2
         => /\ fx.sleep_seconds \in 0..59
            /\ \E q \in {0, 1} :
                  fx.sleep_seconds = 20 - fx.now_seconds + 60 * q
            /\ fx.started = 20
\* run started at second 41; the first job ended at second 21, and the
\* second job started after a sleep of 59 seconds
C27_Witness ==
    /\ fx.fn = "run"
    /\ fx.boot = 41
    /\ fx.jobs = 2
    /\ fx.now_seconds = 21
    /\ fx.sleep_seconds = 59
    /\ fx.started = 20

\* the number of entries of fx.signals equal to v
CountOf(v) == Cardinality({ k \in DOMAIN fx.signals : fx.signals[k] = v })
\* the sum of the -1, 0, +1 entries of fx.signals, by counting
TotalOfSignals == CountOf(1) - CountOf(-1)

\* C28: the result r of combine_signals satisfies, for kind "sum",
\* r * len(signals) = sum of the signals on a non-empty list and r = 0 on
\* the empty list; for kind "vote" it is +1 when the sum is positive, -1
\* when it is negative and 0 when it is 0.
C28_MeanOrSignOfSum ==
    (fx.fn = "combine_signals" /\ fx.out # <<>>) =>
        LET r == fx.out[1]
            n == Len(fx.signals)
        IN  /\ r[2] > 0
            /\ fx.combine_kind = "sum" /\ n > 0
                  => r[1] * n = TotalOfSignals * r[2]
            /\ fx.combine_kind = "sum" /\ n = 0 => r[1] = 0
            /\ fx.combine_kind = "vote" /\ TotalOfSignals > 0
                  => r[1] = r[2]
            /\ fx.combine_kind = "vote" /\ TotalOfSignals < 0
                  => r[1] = -r[2]
            /\ fx.combine_kind = "vote" /\ TotalOfSignals = 0 => r[1] = 0
\* a vote of +1, +1, -1: the mean is 1/3 and the vote is +1
C28_Witness ==
    /\ fx.fn = "combine_signals"
    /\ fx.combine_kind = "vote"
    /\ fx.signals = <<1, 1, -1>>
    /\ fx.out = << <<1, 1>> >>

\* at least the threshold fraction of the generators emit v on the bar
FractionEmits(v) ==
    CountOf(v) * fx.threshold_param[2]
        >= fx.threshold_param[1] * Len(fx.signals)

\* C29: the voter's output on a bar is +1 only if at least the threshold
\* fraction of the generators emit +1 on it, -1 only if at least the
\* threshold fraction emit -1, and 0 otherwise.
C29_ThresholdFractionAgrees ==
    (fx.fn = "SignalVoter" /\ fx.out # <<>>) =>
        /\ fx.out[1] \in {-1, 0, 1}
        /\ fx.out[1] = 1 => FractionEmits(1)
        /\ fx.out[1] = -1 => FractionEmits(-1)

\* the crossover of bar k: +1 with the lead average above the lag average,
\* -1 with it below, 0 when they are equal or one of them is not a number
Crossover(k) ==
    IF fx.lead_ma[k] = NaN \/ fx.lag_ma[k] = NaN THEN 0
    ELSE Sign(fx.lead_ma[k] - fx.lag_ma[k])

\* C30: the output has one value per bar of the input; on each bar it is
\* the crossover when the mode keeps that sign (long-only +1, short-only
\* -1, both either one), and 0 otherwise.
C30_OverlapSignalsByMode ==
    (fx.fn = "MAOverlap.generate_signals" /\ fx.done) =>
        /\ Len(fx.out) = Len(fx.lead_ma)
        /\ \A k \in 1..Len(fx.out) :
              LET kept == IF fx.mode = 1 THEN {1}
                          ELSE IF fx.mode = 2 THEN {-1} ELSE {1, -1}
              IN  fx.out[k] = IF Crossover(k) \in kept
                              THEN Crossover(k) ELSE 0
\* long-only on three bars: warm-up, lead below lag, lead above lag
C30_Witness ==
    /\ fx.fn = "MAOverlap.generate_signals"
    /\ fx.done
    /\ fx.mode = 1
    /\ fx.lead_ma = <<1, 1, 2>>
    /\ fx.lag_ma = <<NaN, 2, 1>>
    /\ fx.out = <<0, 0, 1>>

\* the side of 50 the RSI of bar k is on: +1 above, -1 below, 0 when it is
\* 50 or not a number
RsiSide(k) ==
    IF fx.rsi[k] = NaN THEN 0 ELSE Sign(fx.rsi[k] - RsiThresh)

\* C31: on each bar the output of RSICrossover.generate_signals is +1 with
\* the RSI above 50 when the mode is long-only or both, -1 with the RSI
\* below 50 when the mode is short-only or both, and 0 otherwise.
C31_CrossoverSignalsByMode ==
    (fx.fn = "RSICrossover.generate_signals" /\ fx.done) =>
        /\ Len(fx.out) = Len(fx.rsi)
        /\ \A k \in 1..Len(fx.out) :
              LET kept == IF fx.mode = 1 THEN {1}
                          ELSE IF fx.mode = 2 THEN {-1} ELSE {1, -1}
              IN  fx.out[k] = IF RsiSide(k) \in kept THEN RsiSide(k) ELSE 0

\* the indicator that the called generator compares is undefined on bar k
IndicatorUndefined(k) ==
    IF fx.fn = "MAOverlap.generate_signals"
    THEN fx.lead_ma[k] = NaN \/ fx.lag_ma[k] = NaN
    ELSE fx.rsi[k] = NaN

\* C32: the output of MAOverlap.generate_signals and of
\* RSICrossover.generate_signals holds no NaN, and it is 0 on every bar on
\* which the indicator is undefined.
C32_WarmupIsNeutral ==
    (fx.fn \in {"MAOverlap.generate_signals", "RSICrossover.generate_signals"}
        /\ fx.done) =>
        \A k \in 1..Len(fx.out) :
            /\ fx.out[k] # NaN
            /\ IndicatorUndefined(k) => fx.out[k] = 0
\* both modes on two bars, the lag average undefined on the first
C32_Witness ==
    /\ fx.fn = "MAOverlap.generate_signals"
    /\ fx.done
    /\ fx.mode = 3
    /\ fx.lead_ma = <<1, 2>>
    /\ fx.lag_ma = <<NaN, 1>>
    /\ fx.out = <<0, 1>>

\* the direction in which the signal crosses on bar k: the sign of its
\* move from the bar before, 0 on the first bar
CrossingAt(k) ==
    IF k = 1 THEN 0 ELSE Sign(fx.signals[k] - fx.signals[k - 1])

\* C33: every value discretize_signals emits is -1, 0 or +1; on a bar where
\* the signal crosses in a direction the mode keeps, the value is that
\* direction, and on every other bar, the first included, it is 0.
C33_OneUnitPerCrossing ==
    (fx.fn = "discretize_signals" /\ fx.done) =>
        \A k \in 1..Len(fx.out) :
            LET kept == IF fx.mode = 1 THEN {1}
                        ELSE IF fx.mode = 2 THEN {-1} ELSE {1, -1}
            IN  /\ fx.out[k] \in {-1, 0, 1}
                /\ fx.out[k] = IF CrossingAt(k) \in kept
                               THEN CrossingAt(k) ELSE 0

\* the source bars resampled bar k is built from, counted from 1
SourceBars(k) == ((k - 1) * fx.interval + 1)..(k * fx.interval)

\* C34: resample returns floor(n / interval) bars; bar k has the open of
\* the first of its source bars, the largest of their highs, the smallest
\* of their lows, the close of the last of them and the sum of their
\* volumes.
C34_ResampledBars ==
    (fx.fn = "resample" /\ fx.out # <<>>) =>
        LET r == fx.out[1]
        IN  /\ ~r.raised
            /\ Len(r.bars) = Len(fx.bars) \div fx.interval
            /\ \A k \in 1..Len(r.bars) :
                  /\ r.bars[k].open = fx.bars[(k - 1) * fx.interval + 1].open
                  /\ r.bars[k].close = fx.bars[k * fx.interval].close
                  /\ \A j \in SourceBars(k) :
                        /\ fx.bars[j].high <= r.bars[k].high
                        /\ fx.bars[j].low >= r.bars[k].low
                  /\ \E j \in SourceBars(k) :
                        fx.bars[j].high = r.bars[k].high
                  /\ \E j \in SourceBars(k) :
                        fx.bars[j].low = r.bars[k].low
                  /\ r.bars[k].volume =
                        SumOver([j \in SourceBars(k) |-> fx.bars[j].volume],
                                SourceBars(k))

\* C35: the output of interpolate has datalen entries, the first
\* datalen // len(s) of them 0; every other entry is 0 or the value of a
\* resampled bar k all of whose native bars, the last being number
\* k * interval, come strictly before the entry.
C35_InterpolateIsCausal ==
    (fx.fn = "interpolate" /\ fx.done) =>
        /\ Len(fx.out) = fx.datalen
        /\ \A i \in 1..(fx.datalen \div Len(fx.s)) : fx.out[i] = 0
        /\ \A i \in 1..Len(fx.out) :
              fx.out[i] # 0 =>
                  /\ Abs(fx.out[i]) \in 1..Len(fx.s)
                  /\ fx.out[i] = fx.s[Abs(fx.out[i])]
                  /\ i > Abs(fx.out[i]) * fx.interval
\* seven native bars resampled by 3: two values, each shown on the three
\* bars after its group, the second cut off by the end of the series
C35_Witness ==
    /\ fx.fn = "interpolate"
    /\ fx.done
    /\ fx.interval = 3
    /\ fx.datalen = 7
    /\ fx.s = <<1, -2>>
    /\ fx.out = <<0, 0, 0, 1, 1, 1, -2>>

\* C36: when generate_signals runs, every interval has a cached series and
\* its last candle is less than one interval old.
C36_CacheCompleteAtGenerate ==
    (fx.fn = "clock" /\ fx.pc = "generated") =>
        \A i \in BarIntervals :
            /\ fx.last[i] # NoCandle
            /\ fx.now - fx.last[i] < SecondsPerMinute * i
\* the case of the claim: generate_signals runs in minute 7 on a 3-minute
\* series fetched in minute 3, no cycle having run in minute 6
C36_MissedBoundary ==
    /\ fx.fn = "clock"
    /\ fx.pc = "generated"
    /\ fx.now = 7 * SecondsPerMinute + 21
    /\ fx.last[3] = 3 * SecondsPerMinute

\* C37: every get_order call of a cycle carries the id of an order that
\* execute placed, and the exchange accepted, in that cycle.
C37_ConfirmsThisCyclesOrder ==
    \A k \in DOMAIN calls :
        calls[k].op = "get_order" =>
            /\ exe.ran
            /\ exe.ord.code = "0"
            /\ calls[k].ordId = exe.ord.data[1].ordId
            /\ calls[k].ordId = cycle

\* get_order was called with None: no order was ever placed
C37_ConfirmsNoOrder ==
    /\ exe.ran
    /\ exe.ord = NotCalled
    /\ Len(Calls("get_order")) = 1
    /\ Calls("get_order")[1].ordId = NoOrderId
\* get_order was called in the second cycle with the id of the order of
\* the first cycle
C37_ConfirmsEarlierOrder ==
    /\ cycle = 2
    /\ exe.ran
    /\ exe.ord = NotCalled
    /\ Len(Calls("get_order")) = 1
    /\ Calls("get_order")[1].ordId = 1

\* C38: when set_leverage returned a non-success status and |qty_diff| > 1,
\* the same execute went on to place_order, after the set_leverage call,
\* with the side and the size of the qty_diff it had computed.
C38_RejectedLeverageStillOrders ==
    (exe.ran /\ Rejected(exe.lev) /\ Abs(exe.qty_diff) > MinQtyDiff * QtyScale)
        => /\ exe.ord # NotCalled
           /\ Len(TradingCalls) = 2
           /\ TradingCalls[1] = SetLeverageCall(pos_man.target_lever)
           /\ TradingCalls[2] = PlaceOrderCall(OrderSide(exe.qty_diff),
                                               OrderSize(exe.qty_diff))
\* the leverage was rejected and the order of the same execute accepted
C38_Witness ==
    /\ exe.ran
    /\ Rejected(exe.lev)
    /\ exe.lev.data # <<>>
    /\ exe.ord.code = "0"
    /\ Len(Calls("place_order")) = 1
    /\ pos_man.last_orderid = cycle

\* no trading call of the cycle failed or was rejected, and every series
\* the exchange returned is regular
ExchangeSucceeded ==
    /\ exe.lev.code \in {"0", "none"}
    /\ exe.ord.code \in {"0", "none"}
    /\ \A i \in BarIntervals :
          contracts[i] = NoContract \/ contracts[i].interval = i

\* C39: as long as the exchange calls succeed, the main loop of run is not
\* left: run is neither in its except clause nor past it.
C39_LoopNeverStops ==
    ExchangeSucceeded => pc \notin {"except", "stopped"}
\* the loop was left in a cycle whose execute had both calls accepted
C39_StoppedAfterAcceptedOrder ==
    /\ pc = "stopped"
    /\ exe.ran
    /\ exe.lev.code = "0"
    /\ exe.ord.code = "0"
    /\ ExchangeSucceeded

\* C40: when the first position record could not be parsed, execute takes
\* the account for flat: lever_diff is the target leverage, qty_diff the
\* target quantity, and the order, when one is due, has the side and the
\* size of the full target quantity.
C40_UnparsedIsFlat ==
    (exe.ran /\ posdata # <<>> /\ ~posdata[1].parsed) =>
        /\ current_posdata(posdata) = NonePos
        /\ exe.lever_diff = pos_man.target_lever
        /\ exe.qty_diff = pos_man.target_qty
        /\ exe.ord # NotCalled =>
              /\ Len(Calls("place_order")) = 1
              /\ Calls("place_order")[1] =
                    PlaceOrderCall(OrderSide(pos_man.target_qty),
                                   OrderSize(pos_man.target_qty))
\* the full target quantity was ordered on an unparsed position record
C40_Witness ==
    /\ exe.ran
    /\ posdata = <<UnparsedPos>>
    /\ exe.ord.code = "0"
    /\ exe.qty_diff = pos_man.target_qty
    /\ pos_man.target_qty # 0
    /\ Len(Calls("place_order")) = 1

====
